---- MODULE Spec2Model ----
(***************************************************************************)
(* ScholarX backend (src/demo.js): an Express application whose routes are *)
(* guarded by the checkAuth middleware and by per-handler role checks, and *)
(* which persists User and Research documents through mongoose.            *)
(*                                                                         *)
(* Every request is a small process.  A handler is an async function, so   *)
(* it runs atomically up to its next await; each action below is one such  *)
(* segment, and segments of different requests interleave freely.          *)
(***************************************************************************)
EXTENDS Integers, Sequences, FiniteSets, TLC

\* The requests in flight at one time: two, so that every pair of handlers
\* interleaves.  A request that was answered leaves and another may take its place.
Reqs == {1, 2}

\* Most documents the Research collection holds.
MaxResearch == 1

\* JavaScript's undefined, where a string-valued expression may lack a value.
UNDEFINED == "undefined"

\* The literal separator of checkAuth's split, as one atom of a header string.
BEARER == "Bearer "

----------------------------------------------------------------------------
(* Routes *)

Endpoints ==
  {"login", "professors", "students", "users",
   "postResearch", "getResearch", "apply", "discussions"}

\* The routes registered with checkAuth in front of the handler.
Protected == {"login", "professors", "students", "users", "postResearch", "apply"}

----------------------------------------------------------------------------
(* Inputs *)

\* Authorization header values, each a string written as a sequence of atoms:
\* the separator "Bearer " or a run of other characters.
AuthorizationValues ==
  { <<"Basic x">>,                 \* another scheme
    <<BEARER>>,                    \* "Bearer " with nothing after it
    <<BEARER, "tN">>, <<BEARER, "tS">>, <<BEARER, "tP">>, <<BEARER, "tA">>,
    <<BEARER, "forged">>,          \* well formed, not verifiable
    <<"Basic x", BEARER, "tS">> }  \* "Basic xBearer tS"

\* req.headers: the authorization key is present or not.
HeaderValues ==
  { <<>> } \cup { [authorization |-> a] : a \in AuthorizationValues }

\* The open routes never read the header: one value with it and one without.
HeadersOf(ep) ==
  IF ep \in Protected THEN HeaderValues
  ELSE { <<>>, [authorization |-> <<BEARER, "tS">>] }

\* req.body after express.json(): {} when the request carries none.
EmptyBody == <<>>

BodiesOf(ep) ==
  CASE ep = "postResearch" -> { EmptyBody, [status |-> "bogus"] }
    [] ep = "apply"        -> { [research_id |-> "R1", application_text |-> "text"] }
    [] OTHER               -> { EmptyBody }

----------------------------------------------------------------------------
(* Token Verifier: admin.auth().verifyIdToken *)

\* The decoded ID token of each token the identity provider issued.  A role is
\* present only as a custom claim; tN is a token without one.
DecodedTokens ==
  [ tN |-> [uid |-> "a", email |-> "a@x", name |-> "A"],
    tS |-> [uid |-> "a", email |-> "a@x", name |-> "A", role |-> "student"],
    tP |-> [uid |-> "b", email |-> "b@x", name |-> "B", role |-> "professor"],
    tA |-> [uid |-> "b", email |-> "b@x", name |-> "B", role |-> "admin"] ]

\* verifyIdToken resolves for these tokens and rejects for every other.
Verifies(token) == Len(token) = 1 /\ token[1] \in DOMAIN DecodedTokens

verifyIdToken(token) == DecodedTokens[token[1]]

Identities == { DecodedTokens[t].uid : t \in DOMAIN DecodedTokens }

----------------------------------------------------------------------------
(* checkAuth: extraction of the token *)

\* String.prototype.split("Bearer "): the pieces between the separators.
RECURSIVE split(_)
split(s) ==
  IF \A i \in 1..Len(s) : s[i] # BEARER
    THEN << s >>
    ELSE LET i == CHOOSE k \in 1..Len(s) :
                    s[k] = BEARER /\ \A j \in 1..(k - 1) : s[j] # BEARER
         IN  << SubSeq(s, 1, i - 1) >> \o split(SubSeq(s, i + 1, Len(s)))

\* req.headers.authorization?.split("Bearer ")[1].  The empty string stands for
\* undefined as well: the code only tests the token for truth, and the verifier
\* rejects both.
Token(headers) ==
  IF "authorization" \in DOMAIN headers /\ Len(split(headers.authorization)) >= 2
    THEN split(headers.authorization)[2]
    ELSE <<>>

\* !token is false
HasToken(headers) == Token(headers) # <<>>

----------------------------------------------------------------------------
(* Schemas *)

Roles == {"student", "professor", "admin"}

\* new User({firebase_uid, full_name, email}): role takes the schema default.
NewUser(uid, name, email) ==
  [firebase_uid |-> uid, full_name |-> name, email |-> email, role |-> "student"]

\* The unique indexes of firebase_uid and email: save() rejects a duplicate.
UniqueOk(users, doc) ==
  \A u \in users : u.firebase_uid # doc.firebase_uid /\ u.email # doc.email

\* A projection that forgets the exclusion.
selectEverything(u) == u

\* .select("-firebase_uid")
select(u) == [full_name |-> u.full_name, email |-> u.email, role |-> u.role]

\* new Research(req.body): status takes the schema default when the body has none.
NewResearch(body) ==
  [status |-> IF "status" \in DOMAIN body THEN body.status ELSE "open"]

\* Validation on save: status is one of the enum's values.
ResearchValid(doc) == doc.status \in {"open", "closed"}

\* req.user.role
roleOf(user) == IF "role" \in DOMAIN user THEN user.role ELSE UNDEFINED

----------------------------------------------------------------------------
(* State *)

VARIABLES
  reqs,          \* the requests: input, position, attached identity, response
  users,         \* the User collection
  research,      \* the Research collection, in insertion order
  applications   \* the Application collection

vars == << reqs, users, research, applications >>

NoResp == [type |-> "none"]

Idle ==
  [ ep |-> "none", headers |-> <<>>, body |-> EmptyBody, pc |-> "idle",
    user |-> <<>>, status |-> 0, resp |-> NoResp, err |-> "none" ]

\* User documents the collection can hold when the server starts: roles are
\* data, set outside these routes, so an account may carry a role other than
\* the default.  Accounts with the default role come from login as well.
SeededUsers ==
  { [firebase_uid |-> "a", full_name |-> "A", email |-> "a@x", role |-> "professor"],
    [firebase_uid |-> "b", full_name |-> "B", email |-> "b@x", role |-> "admin"],
    [firebase_uid |-> "b", full_name |-> "B", email |-> "b@x", role |-> "student"] }

InitialUsers ==
  { s \in SUBSET SeededUsers :
      \A u, v \in s : u.firebase_uid = v.firebase_uid => u = v }

Init ==
  /\ reqs = [r \in Reqs |-> Idle]
  /\ users \in InitialUsers
  /\ research = <<>>
  /\ applications = {}

----------------------------------------------------------------------------
(* Responses *)

\* res.status(st).json(body)
Respond(q, st, body) == [q EXCEPT !.pc = "done", !.status = st, !.resp = body]

\* What becomes of a request whose async handler rejects with no catch around
\* the await: Express 4 drops the rejection and sends nothing (0); Express 5
\* forwards it to the default error handler, which answers 500 with a page.
UnhandledOutcomes == {0, 500}

Reject(q, e, st) ==
  [q EXCEPT !.pc = "done", !.err = e, !.status = st,
            !.resp = IF st = 500 THEN [type |-> "page"] ELSE NoResp]

\* The catch of a list handler: res.status(500).json({ message, error })
Caught(q, m) ==
  [q EXCEPT !.pc = "done", !.err = "db", !.status = 500,
            !.resp = [type |-> "object", message |-> m, error |-> "db"]]

Message(m) == [type |-> "object", message |-> m]

List(items) == [type |-> "list", items |-> items]

----------------------------------------------------------------------------
(* Handlers: the segment each runs, without awaiting, when checkAuth calls next() *)

\* POST /api/auth/login: User.findOne({ email }) is awaited first.
LoginStart(q) == [q EXCEPT !.pc = "User.findOne"]

\* GET /api/users/professors
ProfessorsStart(q) ==
  IF roleOf(q.user) # "student"
    THEN Respond(q, 403, Message("Access denied"))
    ELSE [q EXCEPT !.pc = "User.find"]

\* GET /api/users/students
StudentsStart(q) ==
  IF roleOf(q.user) # "professor"
    THEN Respond(q, 403, Message("Access denied"))
    ELSE [q EXCEPT !.pc = "User.find"]

\* GET /api/users: with none of the three roles no query is made and
\* res.json(users) sends the undefined users: status 200 and no body.
UsersStart(q) ==
  IF roleOf(q.user) \in {"student", "professor", "admin"}
    THEN [q EXCEPT !.pc = "User.find"]
    ELSE Respond(q, 200, [type |-> "undefined"])

\* POST /api/research without its role check.
ResearchStartUnchecked(q) == [q EXCEPT !.pc = "research.save"]

\* POST /api/research
ResearchStart(q) ==
  IF roleOf(q.user) # "professor"
    THEN Respond(q, 403, Message("Only professors can post research"))
    ELSE [q EXCEPT !.pc = "research.save"]

\* POST /api/apply: Application is declared nowhere, so new Application(...)
\* throws a ReferenceError and the handler's promise rejects.
ApplyStart(q, st) ==
  IF roleOf(q.user) # "student"
    THEN Respond(q, 403, Message("Only students can apply"))
    ELSE Reject(q, "ReferenceError", st)

HandlerStart(q, st) ==
  CASE q.ep = "login"        -> LoginStart(q)
    [] q.ep = "professors"   -> ProfessorsStart(q)
    [] q.ep = "students"     -> StudentsStart(q)
    [] q.ep = "users"        -> UsersStart(q)
    [] q.ep = "postResearch" -> ResearchStart(q)
    [] q.ep = "apply"        -> ApplyStart(q, st)

----------------------------------------------------------------------------
(* Actions *)

\* checkAuth up to its await: no token, 401; otherwise verifyIdToken is called.
checkAuthEntry(q) ==
  IF ~HasToken(q.headers)
    THEN Respond(q, 401, Message("Unauthorized: No token provided"))
    ELSE [q EXCEPT !.pc = "verifyIdToken"]

\* The POST research requests that may still insert.
Posting == { k \in Reqs : reqs[k].ep = "postResearch" /\ reqs[k].pc # "done" }

\* A request arrives and its route runs up to the first await.  GET research
\* awaits Research.find(); GET discussions throws on the undeclared Discussion.
Receive(r, st) ==
  /\ reqs[r].pc = "idle"
  /\ \A k \in Reqs : k < r => reqs[k].pc # "idle"
  /\ \E ep \in Endpoints :
       \E h \in HeadersOf(ep), b \in BodiesOf(ep) :
         LET q == [Idle EXCEPT !.ep = ep, !.headers = h, !.body = b]
         IN  reqs' = [reqs EXCEPT ![r] =
                        CASE ep \in Protected   -> checkAuthEntry(q)
                          [] ep = "getResearch" -> [q EXCEPT !.pc = "Research.find"]
                          [] ep = "discussions" -> Reject(q, "ReferenceError", st)]
  /\ Len(research) + Cardinality(Posting) < MaxResearch
       \/ reqs'[r].ep # "postResearch"
  /\ UNCHANGED << users, research, applications >>

\* The client has its answer, or gave up waiting for one.
Close(r) ==
  /\ reqs[r].pc = "done"
  /\ reqs' = [reqs EXCEPT ![r] = Idle]
  /\ UNCHANGED << users, research, applications >>

\* A checkAuth whose catch lets the request through to the handler.
checkAuthFailOpen(r, st) ==
  /\ reqs[r].pc = "verifyIdToken"
  /\ LET q == reqs[r]
     IN  reqs' = [reqs EXCEPT ![r] =
                    IF Verifies(Token(q.headers))
                      THEN HandlerStart(
                             [q EXCEPT !.user = verifyIdToken(Token(q.headers))], st)
                      ELSE HandlerStart(q, st)]
  /\ UNCHANGED << users, research, applications >>

\* checkAuth after its await: req.user = userData and next(), or the catch.
checkAuth(r, st) ==
  /\ reqs[r].pc = "verifyIdToken"
  /\ LET q == reqs[r]
     IN  reqs' = [reqs EXCEPT ![r] =
                    IF Verifies(Token(q.headers))
                      THEN HandlerStart(
                             [q EXCEPT !.user = verifyIdToken(Token(q.headers))], st)
                      ELSE Respond(q, 401, Message("Unauthorized: Invalid token"))]
  /\ UNCHANGED << users, research, applications >>

\* A login that saves a new user whether or not one was found.
LoginFindOneAlwaysSaves(r, ok, st) ==
  /\ reqs[r].pc = "User.findOne"
  /\ reqs' = [reqs EXCEPT ![r] =
                IF ~ok THEN Reject(@, "db", st) ELSE [@ EXCEPT !.pc = "user.save"]]
  /\ UNCHANGED << users, research, applications >>

\* login: User.findOne({ email }) settles; a found user is sent, an absent one
\* is built and user.save() awaited.
LoginFindOne(r, ok, st) ==
  /\ reqs[r].pc = "User.findOne"
  /\ LET q == reqs[r]
         found == { u \in users : u.email = q.user.email }
     IN  reqs' = [reqs EXCEPT ![r] =
                    IF ~ok THEN Reject(q, "db", st)
                    ELSE IF found # {}
                      THEN Respond(q, 200,
                             [type |-> "object", message |-> "Login successful",
                              user |-> CHOOSE u \in found : TRUE])
                      ELSE [q EXCEPT !.pc = "user.save"]]
  /\ UNCHANGED << users, research, applications >>

\* login: user.save() settles.
LoginSave(r, ok, st) ==
  /\ reqs[r].pc = "user.save"
  /\ LET q == reqs[r]
         user == NewUser(q.user.uid, q.user.name, q.user.email)
     IN  IF ok /\ UniqueOk(users, user)
           THEN /\ users' = users \cup {user}
                /\ reqs' = [reqs EXCEPT ![r] =
                              Respond(q, 200,
                                [type |-> "object", message |-> "Login successful",
                                 user |-> user])]
           ELSE /\ users' = users
                /\ reqs' = [reqs EXCEPT ![r] =
                              Reject(q, IF ok THEN "E11000" ELSE "db", st)]
  /\ UNCHANGED << research, applications >>

\* User.find({ role }).select("-firebase_uid")
FindByRole(role) == { select(u) : u \in { v \in users : v.role = role } }

\* User.find().select("-firebase_uid")
FindAll == { select(u) : u \in users }

\* GET professors: the find settles inside try/catch.
GetProfessors(r, ok) ==
  /\ reqs[r].pc = "User.find" /\ reqs[r].ep = "professors"
  /\ reqs' = [reqs EXCEPT ![r] =
                IF ok THEN Respond(@, 200, List(FindByRole("professor")))
                ELSE Caught(@, "Error fetching professors")]
  /\ UNCHANGED << users, research, applications >>

\* GET students
GetStudents(r, ok) ==
  /\ reqs[r].pc = "User.find" /\ reqs[r].ep = "students"
  /\ reqs' = [reqs EXCEPT ![r] =
                IF ok THEN Respond(@, 200, List(FindByRole("student")))
                ELSE Caught(@, "Error fetching students")]
  /\ UNCHANGED << users, research, applications >>

\* GET users: the query chosen by the caller's role settles.
GetUsers(r, ok) ==
  /\ reqs[r].pc = "User.find" /\ reqs[r].ep = "users"
  /\ LET role == roleOf(reqs[r].user)
         found == CASE role = "student"   -> FindByRole("professor")
                    [] role = "professor" -> FindByRole("student")
                    [] role = "admin"     -> FindAll
     IN  reqs' = [reqs EXCEPT ![r] =
                    IF ok THEN Respond(@, 200, List(found))
                    ELSE Caught(@, "Error fetching users")]
  /\ UNCHANGED << users, research, applications >>

\* POST research: research.save() settles.
PostResearch(r, ok, st) ==
  /\ reqs[r].pc = "research.save"
  /\ LET q == reqs[r]
         doc == NewResearch(q.body)
     IN  IF ok /\ ResearchValid(doc)
           THEN /\ research' = Append(research, doc)
                /\ reqs' = [reqs EXCEPT ![r] =
                              Respond(q, 201, [type |-> "object", research |-> doc])]
           ELSE /\ research' = research
                /\ reqs' = [reqs EXCEPT ![r] =
                              Reject(q, IF ok THEN "ValidationError" ELSE "db", st)]
  /\ UNCHANGED << users, applications >>

\* GET research: Research.find().populate(...) settles.
GetResearch(r, ok, st) ==
  /\ reqs[r].pc = "Research.find"
  /\ reqs' = [reqs EXCEPT ![r] =
                IF ok THEN Respond(@, 200, List(research))
                ELSE Reject(@, "db", st)]
  /\ UNCHANGED << users, research, applications >>

Step(r, ok, st) ==
  \/ Receive(r, st)
  \/ Close(r)
  \/ checkAuth(r, st)
  \/ LoginFindOne(r, ok, st)
  \/ LoginSave(r, ok, st)
  \/ GetProfessors(r, ok)
  \/ GetStudents(r, ok)
  \/ GetUsers(r, ok)
  \/ PostResearch(r, ok, st)
  \/ GetResearch(r, ok, st)

Next == \E r \in Reqs, ok \in BOOLEAN, st \in UnhandledOutcomes : Step(r, ok, st)

Spec == Init /\ [][Next]_vars

\* The same server when its clients send one request at a time and every
\* persistence call resolves.
ReceiveAlone(r, st) ==
  /\ \A k \in Reqs \ {r} : reqs[k].pc \in {"idle", "done"}
  /\ Receive(r, st)

NextSeq ==
  \E r \in Reqs, st \in UnhandledOutcomes :
    \/ ReceiveAlone(r, st)
    \/ Close(r)
    \/ checkAuth(r, st)
    \/ LoginFindOne(r, TRUE, st)
    \/ LoginSave(r, TRUE, st)
    \/ GetProfessors(r, TRUE)
    \/ GetStudents(r, TRUE)
    \/ GetUsers(r, TRUE)
    \/ PostResearch(r, TRUE, st)
    \/ GetResearch(r, TRUE, st)

SpecSeq == Init /\ [][NextSeq]_vars

----------------------------------------------------------------------------
(* Vocabulary of the properties *)

Store == << users, research, applications >>

Authenticated(q) == DOMAIN q.user # {}

Done(q) == q.pc = "done"

RoleGated == {"professors", "students", "postResearch", "apply"}

ListEndpoints == {"professors", "students", "users"}

RequiredRole(ep) ==
  CASE ep = "professors"   -> "student"
    [] ep = "students"     -> "professor"
    [] ep = "postResearch" -> "professor"
    [] ep = "apply"        -> "student"

\* The bearer token a header carries: what stands between the first "Bearer "
\* and the next, if any; the empty string when the header carries none.
CarriedToken(headers) ==
  IF "authorization" \notin DOMAIN headers THEN <<>>
  ELSE LET a  == headers.authorization
           at == { i \in 1..Len(a) : a[i] = BEARER }
       IN  IF at = {} THEN <<>>
           ELSE LET first == CHOOSE i \in at : \A j \in at : i <= j
                    later == { j \in at : j > first }
                    stop  == IF later = {} THEN Len(a) + 1
                             ELSE CHOOSE j \in later : \A k \in later : j <= k
                IN  SubSeq(a, first + 1, stop - 1)

\* The request is to a protected route and carries no bearer token, or one
\* the Token Verifier rejects.
Unauthenticated(q) ==
  /\ q.ep \in Protected
  /\ \/ CarriedToken(q.headers) = <<>>
     \/ \A t \in DOMAIN DecodedTokens : CarriedToken(q.headers) # << t >>

\* The User documents of an identity.
RecordsOf(id) == { u \in users : u.firebase_uid = id }

\* The role stored in the User document of an identity.
StoredRole(id) ==
  IF RecordsOf(id) = {} THEN UNDEFINED ELSE (CHOOSE u \in RecordsOf(id) : TRUE).role

----------------------------------------------------------------------------
(* C1 *)

C1_State ==
  \A r \in Reqs :
    Unauthenticated(reqs[r]) =>
      /\ reqs[r].pc \in {"verifyIdToken", "done"}
      /\ ~Authenticated(reqs[r])
      /\ Done(reqs[r]) => reqs[r].status = 401 /\ reqs[r].err = "none"

C1_Step ==
  \A r \in Reqs :
    (reqs'[r] # reqs[r] /\ (Unauthenticated(reqs[r]) \/ Unauthenticated(reqs'[r])))
      => Store' = Store

\* C1: a request to a protected endpoint that carries no bearer token, or a
\* token the Token Verifier rejects, is answered 401; it never reaches the
\* endpoint's handler (no identity is attached, no persistence call is pending,
\* no handler error is raised) and none of its steps writes to a collection.
C1_Unauthorized == []C1_State /\ [][C1_Step]_vars

\* Two requests answered 401 at once: one without a token, one with a forged one.
C1_Witness ==
  \E r, k \in Reqs :
    /\ Done(reqs[r]) /\ reqs[r].ep = "postResearch" /\ reqs[r].status = 401
    /\ CarriedToken(reqs[r].headers) = <<>>
    /\ Done(reqs[k]) /\ reqs[k].ep = "login" /\ reqs[k].status = 401
    /\ CarriedToken(reqs[k].headers) = << "forged" >>

----------------------------------------------------------------------------
(* C2 *)

\* The role the handler reads, req.user.role, is not the endpoint's.
Mismatch(q) ==
  /\ q.ep \in RoleGated
  /\ Authenticated(q)
  /\ roleOf(q.user) # RequiredRole(q.ep)

C2_State ==
  \A r \in Reqs :
    Mismatch(reqs[r]) => Done(reqs[r]) /\ reqs[r].status = 403 /\ reqs[r].err = "none"

C2_Step ==
  \A r \in Reqs :
    (reqs'[r] # reqs[r] /\ (Mismatch(reqs[r]) \/ Mismatch(reqs'[r])))
      => Store' = Store

\* C2: an authenticated request to a role-gated endpoint whose caller's role
\* (the role the handler reads from the attached identity) differs from the
\* endpoint's required role is answered 403 in the step that authenticates
\* it, and no step of it changes a collection: POST research by a
\* non-professor inserts no Research document.
C2_Forbidden == []C2_State /\ [][C2_Step]_vars

C2_Witness ==
  \E r, k \in Reqs :
    /\ Done(reqs[r]) /\ reqs[r].ep = "postResearch" /\ Mismatch(reqs[r])
    /\ reqs[r].status = 403 /\ roleOf(reqs[r].user) = "student"
    /\ Done(reqs[k]) /\ reqs[k].ep = "apply" /\ Mismatch(reqs[k])
    /\ reqs[k].status = 403 /\ roleOf(reqs[k].user) = UNDEFINED
    /\ research = <<>>

----------------------------------------------------------------------------
(* C3 *)

\* The step in which checkAuth attaches the identity of a caller who has a User
\* document and the handler decides.
Decides(r) ==
  /\ reqs[r].pc = "verifyIdToken"
  /\ reqs'[r].pc # "verifyIdToken"
  /\ Authenticated(reqs'[r])
  /\ reqs'[r].ep \in RoleGated
  /\ RecordsOf(reqs'[r].user.uid) # {}

\* C3: the decision of a role-gated endpoint follows the role stored in the
\* caller's User document: the caller is denied (403) exactly when the stored
\* role differs from the endpoint's required role.
C3_StoredRoleDecides ==
  [][ \A r \in Reqs :
        Decides(r) =>
          (reqs'[r].status = 403
             <=> StoredRole(reqs'[r].user.uid) # RequiredRole(reqs'[r].ep)) ]_vars

----------------------------------------------------------------------------
(* C4 *)

C4_State ==
  \A r \in Reqs :
    (reqs[r].ep = "login" /\ Done(reqs[r]) /\ Authenticated(reqs[r])) =>
      /\ reqs[r].status = 200
      /\ reqs[r].resp.type = "object"
      /\ RecordsOf(reqs[r].user.uid) = { reqs[r].resp.user }

C4_Step ==
  \A r \in Reqs :
    (reqs[r].ep = "login" /\ reqs'[r] # reqs[r] /\ users' # users) =>
      /\ RecordsOf(reqs[r].user.uid) = {}
      /\ users' = users \cup { [firebase_uid |-> reqs[r].user.uid,
                                full_name    |-> reqs[r].user.name,
                                email        |-> reqs[r].user.email,
                                role         |-> "student"] }

\* C4: when login requests are handled one after another and persistence
\* works, every login of a verified identity is answered 200 with the one User
\* document of that identity; a login inserts only when the identity has no
\* document yet, and then inserts it with role student, so that later logins
\* retrieve it and insert nothing.
C4_LoginIdempotent == []C4_State /\ [][C4_Step]_vars

\* Two answered logins of identity a, whose document the first of them created.
C4_Witness ==
  /\ \A r \in Reqs :
       /\ reqs[r].ep = "login" /\ Done(reqs[r]) /\ reqs[r].status = 200
       /\ Authenticated(reqs[r]) /\ reqs[r].user.uid = "a"
       /\ reqs[r].resp.user.role = "student"
  /\ Cardinality(RecordsOf("a")) = 1

----------------------------------------------------------------------------
(* C5 *)

\* C5: POST apply by an authenticated student is answered 201 and leaves
\* exactly one Application document with the caller's subject id and the
\* body's research_id.
C5_ApplyCreates ==
  \A r \in Reqs :
    (reqs[r].ep = "apply" /\ Done(reqs[r]) /\ Authenticated(reqs[r])
       /\ roleOf(reqs[r].user) = "student") =>
      /\ reqs[r].status = 201
      /\ Cardinality({ a \in applications :
                         /\ a.student_id = reqs[r].user.uid
                         /\ a.research_id = reqs[r].body.research_id }) = 1

----------------------------------------------------------------------------
(* C6 *)

\* C6: GET research and GET discussions are answered 200 with a list, whatever
\* the header and the collections.
C6_OpenLists ==
  \A r \in Reqs :
    (reqs[r].ep \in {"getResearch", "discussions"} /\ Done(reqs[r])) =>
      reqs[r].status = 200 /\ reqs[r].resp.type = "list"

----------------------------------------------------------------------------
(* C7 *)

\* C7: a request during which a persistence call failed is answered 500 with
\* the underlying error in the body.
C7_FailureIs500 ==
  \A r \in Reqs :
    (Done(reqs[r]) /\ reqs[r].err \in {"db", "E11000", "ValidationError"}) =>
      /\ reqs[r].status = 500
      /\ reqs[r].resp.type = "object"
      /\ reqs[r].resp.error = reqs[r].err

----------------------------------------------------------------------------
(* C8 *)

\* C8: no record of a 200 response of GET professors, GET students or GET
\* users carries the firebase_uid field.
C8_NoSubjectId ==
  \A r \in Reqs :
    (reqs[r].ep \in ListEndpoints /\ Done(reqs[r]) /\ reqs[r].status = 200
       /\ reqs[r].resp.type = "list") =>
      \A u \in reqs[r].resp.items : "firebase_uid" \notin DOMAIN u

\* Both views answered with records in them.
C8_Witness ==
  \E r, k \in Reqs :
    /\ reqs[r].ep = "users" /\ Done(reqs[r]) /\ reqs[r].status = 200
    /\ reqs[r].resp.type = "list" /\ Cardinality(reqs[r].resp.items) = 2
    /\ reqs[k].ep = "students" /\ Done(reqs[k]) /\ reqs[k].status = 200
    /\ reqs[k].resp.type = "list" /\ reqs[k].resp.items # {}

----------------------------------------------------------------------------
(* C9 *)

\* The step in which GET users answers an authenticated caller without a
\* persistence failure.
AnswersUsers(r) ==
  /\ reqs[r].ep = "users"
  /\ ~Done(reqs[r])
  /\ Done(reqs'[r])
  /\ Authenticated(reqs'[r])
  /\ reqs'[r].err = "none"

\* C9: GET users answers every authenticated caller 200 with a list, the
\* professors for a student, the students for a professor and all users for
\* an admin.
C9_UsersView ==
  [][ \A r \in Reqs :
        AnswersUsers(r) =>
          /\ reqs'[r].status = 200
          /\ reqs'[r].resp.type = "list"
          /\ roleOf(reqs'[r].user) = "student" =>
               reqs'[r].resp.items = { select(u) : u \in { v \in users : v.role = "professor" } }
          /\ roleOf(reqs'[r].user) = "professor" =>
               reqs'[r].resp.items = { select(u) : u \in { v \in users : v.role = "student" } }
          /\ roleOf(reqs'[r].user) = "admin" =>
               reqs'[r].resp.items = { select(u) : u \in users } ]_vars

----------------------------------------------------------------------------
(* C10 *)

\* C10: however login requests of one identity interleave, the identity never
\* has two User documents, and each of the requests is answered 200 with the
\* user document (persistence failures apart).
C10_ConcurrentLogin ==
  /\ \A id \in Identities : Cardinality(RecordsOf(id)) <= 1
  /\ \A r \in Reqs :
       (reqs[r].ep = "login" /\ Done(reqs[r]) /\ Authenticated(reqs[r])
          /\ reqs[r].err # "db") =>
         /\ reqs[r].status = 200
         /\ reqs[r].resp.type = "object"
         /\ reqs[r].resp.user \in users

====
